---- MODULE Spec2Model ----
(***************************************************************************)
(* A model of lambda/lambda_function.py: the corpus cache (load_papers),   *)
(* the generation client (call_gemini_api), the similarity ranker          *)
(* (semantic_search) and the request handler (lambda_handler).             *)
(*                                                                         *)
(* Numbers.  Embeddings are integer vectors.  A cosine similarity          *)
(*     dot(r, q) / (norm(r) * norm(q))                                     *)
(* is kept exactly, as the signed square of its value: the record          *)
(* [nan, num, den] stands for sign(num) * sqrt(|num| / den), in lowest     *)
(* terms, so that two scores are equal exactly when their records are.     *)
(* 0/0 is the IEEE NaN numpy produces (with a warning, not an exception).  *)
(*                                                                         *)
(* Python lists are sequences; list positions are 0-based as in the        *)
(* source, so item idx of a list l is l[idx + 1].                          *)
(***************************************************************************)
EXTENDS Integers, Sequences, FiniteSets, TLC

\* ------------------------------------------------------------------ bounds

\* Largest corpus the blob store may hold.
NPapers == 2
\* Largest number of rows of an embedding matrix.
MaxRows == 3
\* Largest top_k a direct call of the ranker is given.
MaxTopK == 4
\* Longest caller-supplied index list made of the first and last index only.
MaxList == 6
\* Longest caller-supplied index list that may hold any index.
MaxMixedList == 2
\* Most fetches of one blob a process is followed through.
MaxFetches == 2
\* Number of callers of load_papers running at once.
NThreads == 3

\* ------------------------------------------------------- program constants

\* max_retries and the first retry_delay of call_gemini_api.
max_retries == 3
retry_delay == 2
\* top_k the handler passes to semantic_search.
top_k_search == 10
\* The [:5] cut of the handler.
display_limit == 5

\* ---------------------------------------------------------------- helpers

Min(a, b) == IF a < b THEN a ELSE b
Max(a, b) == IF a > b THEN a ELSE b
Abs(a) == IF a < 0 THEN -a ELSE a

RECURSIVE GCD(_, _)
GCD(a, b) == IF b = 0 THEN a ELSE GCD(b, a % b)

\* Python's a[start:] for any integer start.
PySliceFrom(a, start) ==
    LET n == Len(a)
        s == IF start < 0 THEN Max(n + start, 0) ELSE Min(start, n)
    IN  SubSeq(a, s + 1, n)

\* Python's a[:stop] for stop >= 0.
PySliceTo(a, stop) == SubSeq(a, 1, Min(stop, Len(a)))

\* Python's a[::-1].
Reverse(a) == [i \in 1..Len(a) |-> a[Len(a) + 1 - i]]

\* ------------------------------------------------------------- the ranker

\* The embedding vectors of the model (D = 2).
Vectors == { <<0, 0>>, <<1, 0>>, <<0, 1>>, <<1, 1>>, <<-1, 0>>, <<9, 1>> }

Matrices == UNION { [1..n -> Vectors] : n \in 0..MaxRows }

Dot(u, v) == u[1] * v[1] + u[2] * v[2]

NaN == [nan |-> TRUE, num |-> 0, den |-> 1]

\* The exact similarity with signed square num / den.
Ratio(num, den) ==
    LET g == GCD(Abs(num), den)
    IN  [nan |-> FALSE, num |-> num \div g, den |-> den \div g]

ScoreOne == Ratio(1, 1)

\* np.dot(row, q) / (norm(row) * norm(q)): NaN (0/0) when a norm is 0.
Similarity(row, q) ==
    LET d == Dot(row, q)
        nn == Dot(row, row) * Dot(q, q)
    IN  IF nn = 0 THEN NaN
        ELSE Ratio((IF d < 0 THEN -1 ELSE 1) * d * d, nn)

Similarities(q, M) == [i \in 1..Len(M) |-> Similarity(M[i], q)]

\* a < b on floats: false when either is NaN.
ScoreLess(a, b) == ~a.nan /\ ~b.nan /\ a.num * b.den < b.num * a.den
\* a >= b on floats: false when either is NaN.
ScoreGeq(a, b) == ~a.nan /\ ~b.nan /\ a.num * b.den >= b.num * a.den

\* The order numpy sorts by: ascending, every NaN after every number.
SortsBefore(a, b) == (~a.nan /\ b.nan) \/ ScoreLess(a, b)

\* The orderings of the positions 0..n-1, for every n a matrix may have.
Orderings ==
    [n \in 0..Max(MaxRows, display_limit + 1) |->
        { p \in [1..n -> 0..(n - 1)] : \A a, b \in 1..n : a # b => p[a] # p[b] }]

\* np.argsort(sims) with the default kind (quicksort, not a stable sort): any
\* ordering of the positions 0..n-1 that is ascending; the order of equal
\* scores is not fixed by numpy.
Argsort(sims) ==
    { p \in Orderings[Len(sims)] :
        \A a \in 1..(Len(sims) - 1) :
            ~SortsBefore(sims[p[a + 1] + 1], sims[p[a] + 1]) }

\* Lines 92-94 for one outcome of the argsort.
top_of(order, similarities, top_k) ==
    LET top_indices == Reverse(PySliceFrom(order, -top_k))
    IN  [indices |-> top_indices,
         scores  |-> [i \in 1..Len(top_indices) |-> similarities[top_indices[i] + 1]]]

\* semantic_search: the (top_indices, scores) pairs it may return.  (The
\* similarities are bound once, as in the source, rather than recomputed at
\* each use.)
semantic_search(query_embedding, paper_embeddings, top_k) ==
    UNION { { top_of(order, similarities, top_k) : order \in Argsort(similarities) } :
            similarities \in { Similarities(query_embedding, paper_embeddings) } }

\* -------------------------------------------------- the generation client

\* What one attempt (one urlopen and the parse of its body) may end in.
AttemptOutcomes == { "ok", "http503", "http429", "http500", "timeout", "malformed" }

HTTPErrors == { "http503", "http429", "http500" }

BusyMsg == "The AI service is busy right now. Please wait a moment and try again!"
TooManyMsg == "Too many requests. Please wait 30 seconds and try again."
ErrorCodeMsg == "AI service error. Please try again. (Error code: 500)"
UnreachableMsg == "Unable to reach AI service. Please check your connection and try again."

\* The loop of call_gemini_api from attempt `attempt` on, given the outcome of
\* every attempt; `sleeps` are the time.sleep calls made so far.
RECURSIVE gemini_loop(_, _, _, _)
gemini_loop(outs, attempt, delay, sleeps) ==
    LET o == outs[attempt + 1]
        raised(msg) == [ok |-> FALSE, value |-> msg,
                        attempts |-> attempt + 1, sleeps |-> sleeps]
        again == gemini_loop(outs, attempt + 1, delay * 2, Append(sleeps, delay))
    IN  IF o = "ok"
        THEN [ok |-> TRUE, value |-> "text",
              attempts |-> attempt + 1, sleeps |-> sleeps]
        ELSE IF o \in HTTPErrors
        THEN IF o \in { "http503", "http429" } /\ attempt < max_retries - 1
             THEN again
             ELSE IF o = "http503" THEN raised(BusyMsg)
             ELSE IF o = "http429" THEN raised(TooManyMsg)
             ELSE raised(ErrorCodeMsg)
        ELSE IF attempt < max_retries - 1
             THEN again
             ELSE raised(UnreachableMsg)

call_gemini_api(outs) == gemini_loop(outs, 0, retry_delay, <<>>)

\* What a call of call_gemini_api hands to its caller: the text, or the
\* message of the exception it raises.
GeminiResults ==
    { [ok |-> r.ok, value |-> r.value] :
        r \in { call_gemini_api(outs) : outs \in [1..max_retries -> AttemptOutcomes] } }

\* Whether the except clauses of an attempt that ended in o sleep and go on
\* to the next attempt (lines 50 and 64) instead of raising.
retries(o, attempt) ==
    IF o \in HTTPErrors
    THEN o \in { "http503", "http429" } /\ attempt < max_retries - 1
    ELSE o # "ok" /\ attempt < max_retries - 1

\* The message of the exception raised for an attempt that is not retried.
raise_message(o) ==
    IF o = "http503" THEN BusyMsg
    ELSE IF o = "http429" THEN TooManyMsg
    ELSE IF o = "http500" THEN ErrorCodeMsg
    ELSE UnreachableMsg

\* retry_delay left as it is after a sleep.
same_delay(delay) == delay

\* retry_delay *= 2
next_delay(delay) == delay * 2

\* A call of call_gemini_api: where it stands (pc), the loop variable, the
\* retry_delay, and the urlopen attempts and time.sleep calls made, in order.
GeminiCall(pc, attempt, delay, log, value) ==
    [pc |-> pc, attempt |-> attempt, delay |-> delay, log |-> log, value |-> value]

NoGemini == GeminiCall("idle", 0, 0, <<>>, "")

AttemptEntry(o) == [op |-> "attempt", outcome |-> o, seconds |-> 0]
SleepEntry(d) == [op |-> "sleep", outcome |-> "", seconds |-> d]

\* ------------------------------------------------------------- the corpus

\* The corpus of n papers the blob store holds: paper idx has title idx.
Corpus(n) == [i \in 1..n |-> [title_clean |-> i - 1]]

\* papers_cache = None before the first load.
NoCache == [none |-> TRUE, list |-> <<>>]

\* The sizes of the corpus the blob store may hold: the small ones, and one
\* larger than the [:5] cut.
CorpusSizes == (0..NPapers) \cup { display_limit + 1 }

\* load_papers testing `not papers_cache` instead of `papers_cache is None`:
\* an empty cached list is fetched again.
load_papers_refetching_empty(cache) ==
    IF cache.none \/ cache.list = <<>>
    THEN { [papers |-> Corpus(n), fetched |-> TRUE, failed |-> FALSE] : n \in CorpusSizes }
         \cup { [papers |-> <<>>, fetched |-> TRUE, failed |-> TRUE] }
    ELSE { [papers |-> cache.list, fetched |-> FALSE, failed |-> FALSE] }

\* load_papers: the cached list, or the outcomes of the one fetch.  A fetch
\* that raises leaves the empty list in the cache.
load_papers(cache) ==
    IF cache.none
    THEN { [papers |-> Corpus(n), fetched |-> TRUE, failed |-> FALSE] : n \in CorpusSizes }
         \cup { [papers |-> <<>>, fetched |-> TRUE, failed |-> TRUE] }
    ELSE { [papers |-> cache.list, fetched |-> FALSE, failed |-> FALSE] }

IndexErrorMsg == "list index out of range"
TypeErrorMsg == "list indices must be integers or slices, not NoneType"

\* Python's l[idx]: None raises TypeError, a negative idx counts from the end,
\* anything outside [-len, len) raises IndexError.
PyGetItem(l, is_none, idx) ==
    IF is_none THEN [exc |-> TypeErrorMsg, value |-> [title_clean |-> -1]]
    ELSE IF idx >= 0 /\ idx < Len(l) THEN [exc |-> "", value |-> l[idx + 1]]
    ELSE IF idx < 0 /\ idx >= -Len(l) THEN [exc |-> "", value |-> l[Len(l) + idx + 1]]
    ELSE [exc |-> IndexErrorMsg, value |-> [title_clean |-> -1]]

\* papers[idx] for every idx of a list, in order.
GetItems(papers, indices) ==
    [i \in 1..Len(indices) |-> PyGetItem(papers, FALSE, indices[i])]

\* The exception the first failing lookup raises, "" when none fails.
FirstExc(items) ==
    IF \A i \in 1..Len(items) : items[i].exc = "" THEN ""
    ELSE items[CHOOSE i \in 1..Len(items) :
                 /\ items[i].exc # ""
                 /\ \A j \in 1..(i - 1) : items[j].exc = ""].exc

\* ------------------------------------------------------------ the requests

IdxAny == (-(NPapers + 1))..NPapers
\* The first and the last paper of a full corpus.
IdxEnds == { 0, NPapers - 1 }

\* The index lists a caller supplies: short ones of any indices, long ones of
\* indices that a full corpus holds.
Lists ==
    UNION { [1..n -> IdxEnds] : n \in 0..MaxList }
    \cup UNION { [1..n -> IdxAny] : n \in 0..MaxMixedList }

\* An event and the body read from it (line 111); a field the body lacks
\* has its has_ flag FALSE, and body_ok is FALSE when the body does not parse
\* to a JSON object.
Event(method, action) ==
    [httpMethod |-> method, body_ok |-> TRUE, action |-> action,
     has_query |-> FALSE, query |-> "",
     has_relevant |-> FALSE, relevant_papers |-> <<>>,
     has_index |-> FALSE, paper_index |-> 0,
     paper_indices |-> <<>>]

NoEvent == Event("", "")

\* The 'query' field: absent, empty, or a question.
QueryFields == { [has |-> FALSE, v |-> ""], [has |-> TRUE, v |-> ""],
                 [has |-> TRUE, v |-> "q"] }

\* The 'relevant_papers' field: absent, or a list.
RelevantFields ==
    { [has |-> FALSE, v |-> <<>>] } \cup { [has |-> TRUE, v |-> l] : l \in Lists }

Events ==
    { Event("OPTIONS", ""), Event("POST", "unknown"), Event("POST", "explain_paper"),
      [Event("POST", "") EXCEPT !.body_ok = FALSE] }
    \cup { [Event("POST", "explain_paper") EXCEPT !.has_index = TRUE, !.paper_index = i] :
             i \in IdxAny }
    \cup { [Event("POST", "compare_papers") EXCEPT !.paper_indices = l] : l \in Lists }
    \cup { [Event("POST", "rag_search") EXCEPT
                !.has_query = qf.has, !.query = qf.v,
                !.has_relevant = rf.has, !.relevant_papers = rf.v] :
             qf \in QueryFields, rf \in RelevantFields }

\* The embedding blob and the query embeddings of the requests.
BlobVectors == { <<0, 0>>, <<1, 0>>, <<0, 1>> }
EmbeddingBlobs == UNION { [1..n -> BlobVectors] : n \in 0..MaxRows }
QueryEmbeddings == { <<0, 0>>, <<1, 0>>, <<1, 1>> }
\* A blob of one row more than the [:5] cut, and the query embeddings it is
\* ranked for (the second one scores two pairs of rows equal).
LongBlob == << <<0, 1>>, <<1, 0>>, <<9, 1>>, <<1, 1>>, <<-1, 0>>, <<1, 9>> >>
LongBlobQueries == { <<1, 0>>, <<1, 1>> }

\* ------------------------------------------------------------ the handler

QueryRequiredMsg == "Query is required"
InvalidActionMsg == "Invalid action"
S3ErrorMsg == "An error occurred (NoSuchKey) when calling the GetObject operation"
EmbedErrorMsg == "HTTP Error 400: Bad Request"
JSONErrorMsg == "Expecting value: line 1 column 1 (char 0)"

\* A response: its statusCode and what its body holds.
Response(status, kind, error, papers, title) ==
    [statusCode |-> status, kind |-> kind, error |-> error,
     papers |-> papers, paper_title |-> title]

NoResponse == Response(0, "", "", <<>>, -1)

\* The exception leaving the handler, as it would without the except clause.
Escaped(msg) == Response(0, "exception", msg, <<>>, -1)

\* The except clause of the handler: statusCode 500 with str(e).
Error500(msg) == Response(500, "error", msg, <<>>, -1)

NoRankCall == [called |-> FALSE, q |-> <<>>, M |-> <<>>, k |-> 0]
NoRankOut == [done |-> FALSE, indices |-> <<>>, scores |-> <<>>]

\* What a branch of the handler leaves: the response, the calls it made to its
\* collaborators in order, the call of the ranker and its result, and the
\* titles of the papers put in the prompt of the generation call.
Outcome(resp, calls, rc, ro, ctx) ==
    [response |-> resp, trace |-> calls, rank_call |-> rc, rank_out |-> ro,
     context |-> ctx]

Plain(resp, calls) == Outcome(resp, calls, NoRankCall, NoRankOut, <<>>)

\* action == 'explain_paper'
explain_paper(body, papers) ==
    LET paper == PyGetItem(papers, ~body.has_index, body.paper_index)
    IN  IF paper.exc # "" THEN { Plain(Error500(paper.exc), <<>>) }
        ELSE { Outcome(IF g.ok
                       THEN Response(200, "explanation", "", <<>>, paper.value.title_clean)
                       ELSE Error500(g.value),
                       << "call_gemini_api" >>, NoRankCall, NoRankOut,
                       << paper.value.title_clean >>) : g \in GeminiResults }

\* action == 'compare_papers'
compare_papers(body, papers) ==
    LET indices == body.paper_indices
        items == GetItems(papers, indices)
    IN  IF FirstExc(items) # "" THEN { Plain(Error500(FirstExc(items)), <<>>) }
        ELSE { Outcome(IF g.ok
                       THEN Response(200, "comparison", "", <<>>, -1)
                       ELSE Error500(g.value),
                       << "call_gemini_api" >>, NoRankCall, NoRankOut,
                       [i \in 1..Len(items) |-> items[i].value.title_clean]) :
               g \in GeminiResults }

\* assemble with the context built from indices instead of indices[:5].
assemble_uncut_context(papers, indices, scores, calls, rc, ro) ==
    IF indices = <<>>
    THEN { Outcome(Response(200, "no_results", "", <<>>, -1), calls, rc, ro, <<>>) }
    ELSE LET shown == PySliceTo(indices, display_limit)
             items == GetItems(papers, indices)
             paper_details ==
                 [i \in 1..Len(shown) |->
                     [index |-> shown[i], title |-> items[i].value.title_clean,
                      score |-> scores[i]]]
         IN  IF FirstExc(items) # ""
             THEN { Outcome(Error500(FirstExc(items)), calls, rc, ro, <<>>) }
             ELSE { Outcome(IF g.ok
                            THEN Response(200, "answer", "", paper_details, -1)
                            ELSE Error500(g.value),
                            Append(calls, "call_gemini_api"), rc, ro,
                            [i \in 1..Len(items) |-> items[i].value.title_clean]) :
                    g \in GeminiResults }

\* assemble without the `if not indices` return of line 170.
assemble_unchecked(papers, indices, scores, calls, rc, ro) ==
    LET shown == PySliceTo(indices, display_limit)
        items == GetItems(papers, shown)
        paper_details ==
            [i \in 1..Len(shown) |->
                [index |-> shown[i], title |-> items[i].value.title_clean,
                 score |-> scores[i]]]
    IN  IF FirstExc(items) # ""
        THEN { Outcome(Error500(FirstExc(items)), calls, rc, ro, <<>>) }
        ELSE { Outcome(IF g.ok
                       THEN Response(200, "answer", "", paper_details, -1)
                       ELSE Error500(g.value),
                       Append(calls, "call_gemini_api"), rc, ro,
                       [i \in 1..Len(items) |-> items[i].value.title_clean]) :
               g \in GeminiResults }

\* Lines 170-214: from the resolved indices and scores to the response.
assemble(papers, indices, scores, calls, rc, ro) ==
    IF indices = <<>>
    THEN { Outcome(Response(200, "no_results", "", <<>>, -1), calls, rc, ro, <<>>) }
    ELSE LET shown == PySliceTo(indices, display_limit)
             items == GetItems(papers, shown)
             paper_details ==
                 [i \in 1..Len(shown) |->
                     [index |-> shown[i], title |-> items[i].value.title_clean,
                      score |-> scores[i]]]
         IN  IF FirstExc(items) # ""
             THEN { Outcome(Error500(FirstExc(items)), calls, rc, ro, <<>>) }
             ELSE { Outcome(IF g.ok
                            THEN Response(200, "answer", "", paper_details, -1)
                            ELSE Error500(g.value),
                            Append(calls, "call_gemini_api"), rc, ro,
                            [i \in 1..Len(items) |-> items[i].value.title_clean]) :
                    g \in GeminiResults }

\* explicit_indices with the cut one short.
explicit_indices_cut_short(body) == PySliceTo(body.relevant_papers, display_limit - 1)

\* Lines 155-157: the caller's indices, cut to five, each with score 1.0.
explicit_indices(body) == PySliceTo(body.relevant_papers, display_limit)

\* What the blob store answers to the fetch of the embeddings and what the
\* embedding provider answers to get_embedding, when the request asks them.
Worlds ==
    { [s3_ok |-> FALSE, paper_embeddings |-> <<>>,
       embed_ok |-> FALSE, query_embedding |-> <<>>] }
    \cup { [s3_ok |-> TRUE, paper_embeddings |-> M,
            embed_ok |-> FALSE, query_embedding |-> <<>>] : M \in EmbeddingBlobs }
    \cup { [s3_ok |-> TRUE, paper_embeddings |-> M,
            embed_ok |-> TRUE, query_embedding |-> q] :
           M \in EmbeddingBlobs, q \in QueryEmbeddings }
    \cup { [s3_ok |-> TRUE, paper_embeddings |-> LongBlob,
            embed_ok |-> TRUE, query_embedding |-> q] : q \in LongBlobQueries }

\* Lines 158-168: the embedding blob is fetched, the query embedded, the
\* rows ranked; either fetch may raise.
semantic_path(papers, w) ==
    IF ~w.s3_ok
    THEN { Plain(Error500(S3ErrorMsg), << "s3_get_embeddings" >>) }
    ELSE IF ~w.embed_ok
    THEN { Plain(Error500(EmbedErrorMsg), << "s3_get_embeddings", "get_embedding" >>) }
    ELSE UNION {
          assemble(papers, r.indices, r.scores,
                   << "s3_get_embeddings", "get_embedding", "semantic_search" >>,
                   [called |-> TRUE, q |-> w.query_embedding,
                    M |-> w.paper_embeddings, k |-> top_k_search],
                   [done |-> TRUE, indices |-> r.indices, scores |-> r.scores]) :
          r \in semantic_search(w.query_embedding, w.paper_embeddings, top_k_search) }

\* has_relevant_papers asking for more than one index.
has_relevant_papers_plural(body) == body.has_relevant /\ Len(body.relevant_papers) > 1

\* Whether the body takes the explicit path (line 155).
has_relevant_papers(body) == body.has_relevant /\ body.relevant_papers # <<>>

\* action == 'rag_search'
rag_search(body, papers, w) ==
    LET query == IF body.has_query THEN body.query ELSE ""
    IN  IF query = ""
        THEN { Plain(Response(400, "error", QueryRequiredMsg, <<>>, -1), <<>>) }
        ELSE IF has_relevant_papers(body)
        THEN LET indices == explicit_indices(body)
             IN  assemble(papers, indices, [i \in 1..Len(indices) |-> ScoreOne],
                          <<>>, NoRankCall, NoRankOut)
        ELSE semantic_path(papers, w)

dispatch(body, papers, w) ==
    IF body.action = "explain_paper" THEN explain_paper(body, papers)
    ELSE IF body.action = "compare_papers" THEN compare_papers(body, papers)
    ELSE IF body.action = "rag_search" THEN rag_search(body, papers, w)
    ELSE { Plain(Response(400, "error", InvalidActionMsg, <<>>, -1), <<>>) }

\* lambda_handler(event): every way it may end from a process whose cache is
\* `cache`, in world w: the outcome of its branch and the cache it leaves.
lambda_handler(ev, cache, w) ==
    IF ev.httpMethod = "OPTIONS"
    THEN { [out |-> Plain(Response(200, "preflight", "", <<>>, -1), <<>>),
            cache |-> cache, failed |-> FALSE] }
    ELSE IF ~ev.body_ok
    THEN { [out |-> Plain(Error500(JSONErrorMsg), <<>>),
            cache |-> cache, failed |-> FALSE] }
    ELSE UNION {
           { [out |-> [o EXCEPT !.trace =
                         (IF ld.fetched THEN << "s3_get_papers" >> ELSE <<>>) \o @],
              cache |-> [none |-> FALSE, list |-> ld.papers],
              failed |-> ld.failed] : o \in dispatch(ev, ld.papers, w) } :
           ld \in load_papers(cache) }

\* Whether the event reaches line 158, where the world is first asked.
reaches_semantic_path(ev) ==
    /\ ev.httpMethod # "OPTIONS"
    /\ ev.body_ok
    /\ ev.action = "rag_search"
    /\ (IF ev.has_query THEN ev.query ELSE "") # ""
    /\ ~has_relevant_papers(ev)

\* The worlds that differ for the event: all of them when it asks the world,
\* one (it is never looked at) when it does not.
WorldsOf(ev) ==
    IF reaches_semantic_path(ev) THEN Worlds
    ELSE { [s3_ok |-> FALSE, paper_embeddings |-> <<>>,
            embed_ok |-> FALSE, query_embedding |-> <<>>] }

\* ---------------------------------------------------------------- the state

VARIABLES
    papers_cache,   \* the global papers_cache
    fetch_failed,   \* whether the corpus fetch of this process raised
    event,          \* the event of the invocation in hand
    response,       \* what lambda_handler returned for it
    trace,          \* the collaborators the invocation called, in order
    context,        \* the papers of the prompt it passed to call_gemini_api
    rank_call,      \* the arguments of the call of semantic_search
    rank_out,       \* what that call returned
    corpus_fetches,     \* the s3.get_object calls for the corpus, so far
    embeddings_fetches, \* the fetches that returned the embedding matrix, so far
    gemini,             \* a call of call_gemini_api followed attempt by attempt
    loaders             \* the calls of load_papers running at once, line by line

vars == << papers_cache, fetch_failed, event, response, trace, context,
           rank_call, rank_out, corpus_fetches, embeddings_fetches, gemini,
           loaders >>

\* How often a collaborator appears in the calls of an invocation.
Count(calls, op) == Cardinality({ i \in 1..Len(calls) : calls[i] = op })

\* The fetches of the embedding matrix that returned it: get_embedding (line
\* 165) is called exactly when lines 161-162 did not raise.
matrix_fetched(calls) == Count(calls, "get_embedding")

Idle ==
    /\ event = NoEvent
    /\ response = NoResponse
    /\ trace = <<>>
    /\ context = <<>>
    /\ rank_call = NoRankCall
    /\ rank_out = NoRankOut

Init ==
    /\ papers_cache = NoCache
    /\ fetch_failed = FALSE
    /\ corpus_fetches = 0
    /\ embeddings_fetches = 0
    /\ gemini = NoGemini
    /\ loaders = <<>>
    /\ Idle

\* One invocation of lambda_handler, from the event to the response.
LambdaHandler ==
    /\ response = NoResponse
    /\ corpus_fetches < MaxFetches
    /\ embeddings_fetches < MaxFetches
    /\ \E ev \in Events :
         \E w \in WorldsOf(ev) :
         \E h \in lambda_handler(ev, papers_cache, w) :
            /\ event' = ev
            /\ papers_cache' = h.cache
            /\ fetch_failed' = (fetch_failed \/ h.failed)
            /\ response' = h.out.response
            /\ trace' = h.out.trace
            /\ context' = h.out.context
            /\ rank_call' = h.out.rank_call
            /\ rank_out' = h.out.rank_out
            /\ corpus_fetches' = corpus_fetches + Count(h.out.trace, "s3_get_papers")
            /\ embeddings_fetches' = embeddings_fetches + matrix_fetched(h.out.trace)
    /\ UNCHANGED << gemini, loaders >>

\* The response is handed to the caller; the per-request values are dropped
\* and the process, with its globals, waits for the next event.
NextInvocation ==
    /\ response # NoResponse
    /\ event' = NoEvent
    /\ response' = NoResponse
    /\ trace' = <<>>
    /\ context' = <<>>
    /\ rank_call' = NoRankCall
    /\ rank_out' = NoRankOut
    /\ UNCHANGED << papers_cache, fetch_failed, corpus_fetches, embeddings_fetches,
                    gemini, loaders >>

Next == LambdaHandler \/ NextInvocation

Spec == Init /\ [][Next]_vars

\* ------------------------------------------------ the ranker, called alone

TopKs == 0..MaxTopK

InitRank ==
    /\ papers_cache = NoCache
    /\ fetch_failed = FALSE
    /\ event = NoEvent
    /\ response = NoResponse
    /\ trace = <<>>
    /\ context = <<>>
    /\ rank_call \in [called : { TRUE }, q : Vectors, M : Matrices, k : TopKs]
    /\ rank_out = NoRankOut
    /\ corpus_fetches = 0
    /\ embeddings_fetches = 0
    /\ gemini = NoGemini
    /\ loaders = <<>>

\* One call semantic_search(q, M, k).
SemanticSearch ==
    /\ rank_call.called
    /\ ~rank_out.done
    /\ \E r \in semantic_search(rank_call.q, rank_call.M, rank_call.k) :
         rank_out' = [done |-> TRUE, indices |-> r.indices, scores |-> r.scores]
    /\ UNCHANGED << papers_cache, fetch_failed, event, response, trace, context,
                    rank_call, corpus_fetches, embeddings_fetches, gemini, loaders >>

NextRank == SemanticSearch

SpecRank == InitRank /\ [][NextRank]_vars

\* ------------------------------------- the generation client, called alone

handler_vars == << papers_cache, fetch_failed, event, response, trace, context,
                   rank_call, rank_out, corpus_fetches, embeddings_fetches, loaders >>

InitGemini ==
    /\ papers_cache = NoCache
    /\ fetch_failed = FALSE
    /\ corpus_fetches = 0
    /\ embeddings_fetches = 0
    /\ Idle
    /\ loaders = <<>>
    /\ gemini = GeminiCall("attempt", 0, retry_delay, <<>>, "")

\* One pass of the try of lines 40-45 and of the except clause that catches
\* what it raised, up to the return, the raise or the time.sleep.
GeminiAttempt ==
    /\ gemini.pc = "attempt"
    /\ gemini.attempt < max_retries
    /\ \E o \in AttemptOutcomes :
         gemini' = [gemini EXCEPT
                      !.log = Append(@, AttemptEntry(o)),
                      !.pc = IF o = "ok" THEN "returned"
                             ELSE IF retries(o, gemini.attempt) THEN "sleep"
                             ELSE "raised",
                      !.value = IF o = "ok" THEN "text"
                                ELSE IF retries(o, gemini.attempt) THEN ""
                                ELSE raise_message(o)]
    /\ UNCHANGED handler_vars

\* time.sleep(retry_delay); retry_delay *= 2; continue
GeminiSleep ==
    /\ gemini.pc = "sleep"
    /\ gemini' = [gemini EXCEPT
                     !.log = Append(@, SleepEntry(gemini.delay)),
                     !.delay = next_delay(@),
                     !.attempt = @ + 1,
                     !.pc = "attempt"]
    /\ UNCHANGED handler_vars

NextGemini == GeminiAttempt \/ GeminiSleep

SpecGemini == InitGemini /\ [][NextGemini]_vars

\* ------------------------------------- load_papers, called by several at once

Threads == 1..NThreads

\* A call of load_papers: the line it stands at, what its fetch gave (the
\* list, or raised), and the list it returned.
Loader(pc, raised, fetched, result) ==
    [pc |-> pc, raised |-> raised, fetched |-> fetched, result |-> result]

\* What one s3.get_object and parse (lines 15-17) may give while the blob
\* store holds the full corpus: that corpus, or an exception.
FetchOutcomes ==
    { ld \in load_papers(NoCache) : ld.failed \/ ld.papers = Corpus(NPapers) }

request_vars == << fetch_failed, event, response, trace, context, rank_call,
                  rank_out, embeddings_fetches, gemini >>

InitLoad ==
    /\ papers_cache = NoCache
    /\ fetch_failed = FALSE
    /\ corpus_fetches = 0
    /\ embeddings_fetches = 0
    /\ gemini = NoGemini
    /\ Idle
    /\ loaders = [t \in Threads |-> Loader("test", FALSE, <<>>, <<>>)]

\* Line 12: if papers_cache is None
LoadTest(t) ==
    /\ loaders[t].pc = "test"
    /\ loaders' = [loaders EXCEPT ![t].pc = IF papers_cache.none THEN "fetch"
                                            ELSE "return"]
    /\ UNCHANGED << papers_cache, corpus_fetches >>
    /\ UNCHANGED request_vars

\* Lines 15-17, up to the assignment: the fetch and the parse of the blob.
LoadFetch(t) ==
    /\ loaders[t].pc = "fetch"
    /\ \E ld \in FetchOutcomes :
         loaders' = [loaders EXCEPT ![t].pc = "store",
                                    ![t].raised = ld.failed,
                                    ![t].fetched = ld.papers]
    /\ corpus_fetches' = corpus_fetches + 1
    /\ UNCHANGED papers_cache
    /\ UNCHANGED request_vars

\* The assignment of line 17, or of line 21 when the fetch raised.
LoadStore(t) ==
    /\ loaders[t].pc = "store"
    /\ papers_cache' = [none |-> FALSE,
                        list |-> IF loaders[t].raised THEN <<>> ELSE loaders[t].fetched]
    /\ loaders' = [loaders EXCEPT ![t].pc = "return"]
    /\ UNCHANGED corpus_fetches
    /\ UNCHANGED request_vars

\* Line 22: return papers_cache
LoadReturn(t) ==
    /\ loaders[t].pc = "return"
    /\ loaders' = [loaders EXCEPT ![t].pc = "done", ![t].result = papers_cache.list]
    /\ UNCHANGED << papers_cache, corpus_fetches >>
    /\ UNCHANGED request_vars

NextLoad ==
    \E t \in Threads : LoadTest(t) \/ LoadFetch(t) \/ LoadStore(t) \/ LoadReturn(t)

SpecLoad == InitLoad /\ [][NextLoad]_vars

\* ---------------------------------------------------- claims on the ranker

Returned == { rank_out.indices[p] : p \in 1..Len(rank_out.indices) }

RankSimilarities == Similarities(rank_call.q, rank_call.M)

\* C1: for every query, matrix and top_k >= 1, the scores semantic_search
\* returns are non-increasing from each position to the next, and the score at
\* a position is the similarity of the index at that position.
C1_SortedByScore ==
    (rank_out.done /\ rank_call.k >= 1) =>
        /\ \A p \in 1..(Len(rank_out.scores) - 1) :
             ScoreGeq(rank_out.scores[p], rank_out.scores[p + 1])
        /\ \A p \in 1..Len(rank_out.indices) :
             rank_out.scores[p] = RankSimilarities[rank_out.indices[p] + 1]

\* C2: rows with exactly the same score are returned in ascending index, and
\* when such a tie straddles the top-k cut the smaller indices are kept
\* (stated for top_k >= 1: top_k = 0 is C3's case).
C2_TiesByAscendingIndex ==
    (rank_out.done /\ rank_call.k >= 1) =>
        /\ \A p, r \in 1..Len(rank_out.indices) :
             (p < r /\ ~rank_out.scores[p].nan
                    /\ rank_out.scores[p] = rank_out.scores[r])
                => rank_out.indices[p] < rank_out.indices[r]
        /\ \A p \in 1..Len(rank_out.indices) :
             \A j \in (0..(Len(rank_call.M) - 1)) \ Returned :
                (~rank_out.scores[p].nan /\ RankSimilarities[j + 1] = rank_out.scores[p])
                   => rank_out.indices[p] < j

\* C3: for every top_k >= 0 semantic_search returns min(top_k, N) entries, as
\* many scores as indices, and no index twice.
C3_TopKBound ==
    rank_out.done =>
        /\ Len(rank_out.indices) = Min(rank_call.k, Len(rank_call.M))
        /\ Len(rank_out.scores) = Len(rank_out.indices)
        /\ Cardinality(Returned) = Len(rank_out.indices)

\* C4: no returned score is undefined (NaN), every row with an undefined
\* score is placed after every row with a defined one, and such a row is
\* returned only when fewer than top_k rows have a defined score (stated for
\* top_k >= 1: top_k = 0 is C3's case).
C4_ZeroNormRowsLast ==
    (rank_out.done /\ rank_call.k >= 1) =>
        LET defined == { j \in 1..Len(rank_call.M) : ~RankSimilarities[j].nan }
        IN  /\ \A p \in 1..Len(rank_out.scores) : ~rank_out.scores[p].nan
            /\ \A p, r \in 1..Len(rank_out.indices) :
                 (p < r /\ (rank_out.indices[r] + 1) \in defined)
                    => (rank_out.indices[p] + 1) \in defined
            /\ \A p \in 1..Len(rank_out.indices) :
                 (rank_out.indices[p] + 1) \notin defined
                    => Cardinality(defined) < rank_call.k

\* --------------------------------------------------- claims on the handler

Done == response # NoResponse

\* The corpus size N the invocation saw.
N == Len(papers_cache.list)

InRange(idx) == idx >= 0 /\ idx < N

AllInRange(l) == \A i \in 1..Len(l) : InRange(l[i])

Called(op) == \E i \in 1..Len(trace) : trace[i] = op

QueryOf(ev) == IF ev.has_query THEN ev.query ELSE ""

\* A search request whose body supplies a non-empty list of indices.
ExplicitSearch ==
    /\ event.action = "rag_search"
    /\ event.has_relevant
    /\ Len(event.relevant_papers) > 0

\* A search request that supplies no indices.
SemanticSearchRequest ==
    /\ event.action = "rag_search"
    /\ ~(event.has_relevant /\ Len(event.relevant_papers) > 0)

ResultIndices == [i \in 1..Len(response.papers) |-> response.papers[i].index]

\* C5: a search request that supplies a non-empty index list never calls
\* get_embedding, never fetches the embedding matrix and never runs
\* semantic_search, whatever its query and however it ends.
C5_ExplicitPathBypass ==
    (Done /\ ExplicitSearch) =>
        /\ ~Called("get_embedding")
        /\ ~Called("s3_get_embeddings")
        /\ ~Called("semantic_search")
        /\ rank_call = NoRankCall
        /\ rank_out = NoRankOut

\* C5's case: an explicit-path search that was answered.
C5_Witness ==
    /\ ExplicitSearch
    /\ response.statusCode = 200
    /\ response.kind = "answer"
    /\ Called("call_gemini_api")

\* An explicit-path search over in-range indices whose generation succeeded.
ExplicitAnswered ==
    /\ ExplicitSearch
    /\ AllInRange(event.relevant_papers)
    /\ response.statusCode = 200
    /\ response.kind = "answer"

\* C6 as stated: the result holds exactly the indices of the supplied list L,
\* in L's order and of L's length, each with score 1.0.
C6_ExactlyTheSuppliedList ==
    ExplicitAnswered =>
        /\ ResultIndices = event.relevant_papers
        /\ \A i \in 1..Len(response.papers) : response.papers[i].score = ScoreOne

\* C6 amended: the result holds the first min(5, len(L)) indices of L, in L's
\* order, each with score 1.0.
C6_FirstFiveOfTheSuppliedList ==
    ExplicitAnswered =>
        /\ ResultIndices =
             SubSeq(event.relevant_papers, 1, Min(5, Len(event.relevant_papers)))
        /\ \A i \in 1..Len(response.papers) : response.papers[i].score = ScoreOne

\* C6's case: a list longer than five was answered with five results.
C6_Witness ==
    /\ ExplicitAnswered
    /\ Len(event.relevant_papers) > 5
    /\ Len(response.papers) = 5

\* A batch request (explicit-path search, compare_papers) on a non-empty
\* corpus, and its index list.
BatchRequest ==
    /\ N > 0
    /\ \/ ExplicitSearch /\ QueryOf(event) # ""
       \/ event.action = "compare_papers"

BatchList ==
    IF event.action = "rag_search" THEN event.relevant_papers ELSE event.paper_indices

\* C7: in a batch request an index outside [0, N), negative ones included, is
\* dropped: the request does not fail on it, and only the in-range indices of
\* the list select corpus items or appear in the result.
C7_OutOfRangeDropped ==
    (Done /\ BatchRequest /\ ~AllInRange(BatchList)) =>
        /\ response.error \notin { IndexErrorMsg, TypeErrorMsg }
        /\ \A i \in 1..Len(response.papers) : InRange(response.papers[i].index)
        /\ Len(context) <=
             Cardinality({ i \in 1..Len(BatchList) : InRange(BatchList[i]) })

\* C8: explain_paper (on a non-empty corpus) with a missing paper_index or one
\* outside [0, N) answers with a 4xx status and an error, and never calls
\* call_gemini_api.
C8_ExplainInvalidInput ==
    (Done /\ N > 0 /\ event.action = "explain_paper"
          /\ (~event.has_index \/ ~InRange(event.paper_index))) =>
        /\ response.statusCode \in 400..499
        /\ response.error # ""
        /\ ~Called("call_gemini_api")

\* C9: a search request without indices whose query is empty or missing is
\* answered 400 with an error, and no call leaves the process for it: no
\* embedding call, no generation call, no fetch from the blob store.
C9_EmptyQueryNoNetworkCall ==
    (Done /\ SemanticSearchRequest /\ QueryOf(event) = "") =>
        /\ response.statusCode = 400
        /\ response.error # ""
        /\ trace = <<>>

\* C10: once the corpus fetch has failed, a later search request that needs
\* corpus data (its indices resolve to at least one index) ends in an error
\* response that is not the index-out-of-range fault.
C10_NoDataNotIndexFault ==
    (Done /\ fetch_failed /\ ~Called("s3_get_papers")
          /\ event.action = "rag_search" /\ QueryOf(event) # ""
          /\ (ExplicitSearch \/ (rank_out.done /\ Len(rank_out.indices) > 0))) =>
        /\ response.statusCode >= 400
        /\ response.error # IndexErrorMsg

\* ------------------------------------------------- claims on the corpus cache

\* C11: over any sequence of requests of one process the corpus is fetched at
\* most once; once the cache is set (to the corpus, or to the empty list after
\* a fetch that raised) no later request fetches again or changes it.
C11_FetchedAtMostOnce ==
    [][ /\ corpus_fetches' <= 1
        /\ ~papers_cache.none =>
              /\ papers_cache' = papers_cache
              /\ corpus_fetches' = corpus_fetches ]_vars

\* A later request served from the empty list a failed fetch left.
C11_Witness ==
    /\ fetch_failed
    /\ Done
    /\ event.httpMethod = "POST"
    /\ ~Called("s3_get_papers")
    /\ papers_cache = [none |-> FALSE, list |-> <<>>]
    /\ corpus_fetches = 1

\* ------------------------------------------- claims on the generation client

GeminiFinished == gemini.pc \in { "returned", "raised" }

Attempts == SelectSeq(gemini.log, LAMBDA e : e.op = "attempt")
Sleeps == SelectSeq(gemini.log, LAMBDA e : e.op = "sleep")

\* C12: call_gemini_api retries only a 429 or a 503: an attempt that fails in
\* any other way (another HTTP status, a connection error or timeout, a body
\* that does not parse) is the last entry of the call, which has raised; no
\* sleep and no further attempt follows it.
C12_OnlyTransientRetried ==
    \A i \in 1..Len(gemini.log) :
        (gemini.log[i].op = "attempt"
         /\ gemini.log[i].outcome \in { "http500", "timeout", "malformed" })
        => (i = Len(gemini.log) /\ gemini.pc = "raised")

SleepSeconds == [i \in 1..Len(Sleeps) |-> Sleeps[i].seconds]

LastAttempt == Attempts[Len(Attempts)]

\* What C18 says of a call, with `raises_after` the condition under which a
\* call that raised may have done so.
AttemptsAndSleeps(raises_after) ==
    /\ Len(Attempts) <= 3
    /\ Len(Attempts) = 3 => GeminiFinished
    /\ \A i \in 1..Len(gemini.log) :
         gemini.log[i].op = (IF i % 2 = 1 THEN "attempt" ELSE "sleep")
    /\ SleepSeconds \in { <<>>, << 2 >>, << 2, 4 >> }
    /\ GeminiFinished =>
         /\ gemini.log[Len(gemini.log)].op = "attempt"
         /\ \A i \in 1..(Len(Attempts) - 1) : Attempts[i].outcome # "ok"
         /\ IF gemini.pc = "returned"
            THEN LastAttempt.outcome = "ok" /\ gemini.value = "text"
            ELSE LastAttempt.outcome # "ok" /\ raises_after

\* C18 as stated: a call makes at most 3 attempts; it returns the text of the
\* first attempt that succeeds and otherwise raises after the third failed
\* attempt; it sleeps only between two attempts, 2 s and then 4 s, and never
\* after its last attempt.
C18_RaisesAfterThirdAttempt == AttemptsAndSleeps(Len(Attempts) = 3)

\* C18 amended: as above, but a call also raises at once after an attempt
\* that fails with an HTTP status other than 429 and 503.
C18_AtMostThreeAttempts ==
    AttemptsAndSleeps(Len(Attempts) = 3 \/ LastAttempt.outcome = "http500")

\* A call that failed three times, having slept 2 s and 4 s in between.
C18_Witness ==
    /\ gemini.pc = "raised"
    /\ Len(Attempts) = 3
    /\ SleepSeconds = << 2, 4 >>

\* --------------------------------------- claims on the handler, continued

SearchRequest == Done /\ event.httpMethod # "OPTIONS" /\ event.action = "rag_search"

\* C13: in a search request call_gemini_api is never called with an empty
\* context: whenever it is called the context holds at least one paper of the
\* corpus, and a ranking that resolved to no index ends 200 'no results'
\* without the call.
C13_NeverEmptyContext ==
    SearchRequest =>
        /\ Called("call_gemini_api") =>
              /\ Len(context) >= 1
              /\ \A i \in 1..Len(context) : context[i] \in 0..(N - 1)
        /\ (rank_out.done /\ rank_out.indices = <<>>) =>
              /\ response.statusCode = 200
              /\ response.kind = "no_results"
              /\ ~Called("call_gemini_api")

\* A semantic search over a matrix of no rows, answered without generation.
C13_Witness ==
    /\ SearchRequest
    /\ rank_out.done
    /\ rank_out.indices = <<>>
    /\ response.kind = "no_results"
    /\ ~Called("call_gemini_api")

\* C14: over a loaded corpus semantic_search is run only on an embedding
\* matrix with one row per paper: a search whose matrix has another number of
\* rows never reaches the ranker, so no ranked index of it is looked up.
C14_MismatchNeverRanked ==
    (SearchRequest /\ N > 0 /\ rank_out.done) => Len(rank_call.M) = N

\* C15: whatever the event and whichever collaborator fails, an event that
\* was handled has a response whose statusCode is 200, 400 or 500, no
\* exception having left the handler, and a response that is not 200 carries
\* an error.
C15_AlwaysStructuredResponse ==
    event # NoEvent =>
        /\ response.kind # "exception"
        /\ response.statusCode \in { 200, 400, 500 }
        /\ response.statusCode # 200 => response.error # ""

\* A request whose body does not parse, answered 500 with the error.
C15_Witness ==
    /\ event # NoEvent
    /\ ~event.body_ok
    /\ response.statusCode = 500
    /\ response.error = JSONErrorMsg

\* C16: over the requests of one process the embedding matrix is fetched from
\* the blob store at most once: a semantic search that follows one that got
\* the matrix does not fetch it again.
C16_MatrixFetchedAtMostOnce == embeddings_fetches <= 1

\* --------------------------------- claims on load_papers under concurrency

\* C17: when several callers run load_papers at once on a process whose
\* corpus is not loaded, in every interleaving the corpus is fetched at most
\* once and every caller is returned the same corpus.
C17_GuardedFirstLoad ==
    /\ corpus_fetches <= 1
    /\ \A t, u \in DOMAIN loaders :
         (loaders[t].pc = "done" /\ loaders[u].pc = "done")
         => loaders[t].result = loaders[u].result

\* C19: the explicit indices are looked at before the query: a search request
\* with a non-empty list of in-range indices and an empty or absent query is
\* served by the explicit path (the generation client is called on those
\* papers) and is not rejected as lacking a query.
C19_IndicesBeforeQuery ==
    (SearchRequest /\ ExplicitSearch /\ AllInRange(event.relevant_papers)
     /\ QueryOf(event) = "")
    => /\ response.statusCode # 400
       /\ response.error # QueryRequiredMsg
       /\ Called("call_gemini_api")

\* The calls of the invocation after the corpus load.
CallsAfterLoad == SelectSeq(trace, LAMBDA op : op # "s3_get_papers")

SemanticPipeline ==
    << "s3_get_embeddings", "get_embedding", "semantic_search", "call_gemini_api" >>

\* The first min(5, length) entries of the ranked list.
RankedShown == SubSeq(rank_out.indices, 1, Min(5, Len(rank_out.indices)))

\* C20: a semantic search calls get_embedding once, then semantic_search with
\* top_k = 10, and only then call_gemini_api; the context and the result list
\* are both built from the first min(5, length) entries of the ranked list, in
\* rank order, and each result pairs an index with the score the ranker gave
\* to that index.
C20_SemanticPipelineOrder ==
    (SearchRequest /\ ~ExplicitSearch /\ QueryOf(event) # "") =>
        /\ CallsAfterLoad = SubSeq(SemanticPipeline, 1, Len(CallsAfterLoad))
        /\ Called("semantic_search") => rank_call.called /\ rank_call.k = 10
        /\ Called("call_gemini_api") =>
              /\ rank_out.done
              /\ context = RankedShown
        /\ response.kind = "answer" =>
              /\ Len(response.papers) = Len(RankedShown)
              /\ \A i \in 1..Len(response.papers) :
                    /\ response.papers[i].index = RankedShown[i]
                    /\ response.papers[i].title = RankedShown[i]
                    /\ response.papers[i].score = rank_out.scores[i]
                    /\ response.papers[i].score =
                          RankSimilarities[RankedShown[i] + 1]

\* A semantic search answered from a ranking of more than five entries.
C20_Witness ==
    /\ SearchRequest
    /\ ~ExplicitSearch
    /\ response.kind = "answer"
    /\ CallsAfterLoad = SemanticPipeline
    /\ Len(rank_out.indices) > 5
    /\ Len(response.papers) = 5
    /\ Len(context) = 5

====
